---- MODULE Spec2Model ----
(***************************************************************************)
(* Model of the vsh transport core: the non-blocking stream adapters       *)
(* (src/src/async_core/unix.rs, src/src/async_core/vsock.rs, whose code is  *)
(* identical up to the wrapped socket type) and the length-prefixed         *)
(* message framers VshWire / VshAsyncRead / VshAsyncWrite                   *)
(* (src/src/vsh_wire.rs).                                                   *)
(*                                                                         *)
(* One local endpoint of a connected socket pair is modelled.  It carries  *)
(* either the synchronous framer (mode = "sync") or an adapter with the    *)
(* two asynchronous halves (mode = "async").  The kernel, the peer and the *)
(* reactor are the environment.                                            *)
(*                                                                         *)
(* Byte strings are kept run-length encoded (a sequence of runs            *)
(* [b |-> byte, n |-> count], adjacent runs holding different bytes) so    *)
(* that buffers of VSH_BUF_SIZE = 4096 bytes stay small values.            *)
(***************************************************************************)
EXTENDS Integers, Sequences, FiniteSets, TLC

\* src/src/vsh_wire.rs:17
VSH_BUF_SIZE == 4096

\* ---- bounds of the model ------------------------------------------------
\* calls of send_message, receive_message and close made by the application
MaxCalls == 2
\* short (partial) transfers the kernel performs before it moves whole pieces
MaxPartial == 1
\* things the peer does by itself: writing a byte string, resetting the connection
MaxPeerOps == 1
\* wakers of one direction a re-polled future may add to the first one
MaxRepoll == 1
\* the largest piece in which bytes in flight arrive under SpecResume
MaxPiece == 2
\* signals that interrupt a blocked read or write of the blocking socket
MaxIntr == 1

Min(a, b) == IF a < b THEN a ELSE b

\* ---- run-length encoded byte strings ------------------------------------
Run(b, n) == IF n = 0 THEN <<>> ELSE <<[b |-> b, n |-> n]>>

RECURSIVE BLen(_)
BLen(s) == IF s = <<>> THEN 0 ELSE Head(s).n + BLen(Tail(s))

BCat(x, y) ==
    IF x = <<>> THEN y
    ELSE IF y = <<>> THEN x
    ELSE IF x[Len(x)].b = y[1].b
         THEN SubSeq(x, 1, Len(x) - 1)
              \o <<[b |-> y[1].b, n |-> x[Len(x)].n + y[1].n]>>
              \o Tail(y)
         ELSE x \o y

RECURSIVE BTake(_, _)
BTake(s, k) ==
    IF k <= 0 \/ s = <<>> THEN <<>>
    ELSE IF Head(s).n <= k THEN <<Head(s)>> \o BTake(Tail(s), k - Head(s).n)
    ELSE <<[b |-> Head(s).b, n |-> k]>>

RECURSIVE BDrop(_, _)
BDrop(s, k) ==
    IF k <= 0 \/ s = <<>> THEN s
    ELSE IF Head(s).n <= k THEN BDrop(Tail(s), k - Head(s).n)
    ELSE <<[b |-> Head(s).b, n |-> Head(s).n - k]>> \o Tail(s)

\* the i-th byte (1-based); -1 past the end
RECURSIVE ByteAt(_, _)
ByteAt(s, i) ==
    IF s = <<>> THEN -1
    ELSE IF i <= Head(s).n THEN Head(s).b
    ELSE ByteAt(Tail(s), i - Head(s).n)

\* buf[off .. off+len(data)] = data : a read into a slice of a buffer
BWrite(buf, off, data) ==
    BCat(BCat(BTake(buf, off), data), BDrop(buf, off + BLen(data)))

B4(b1, b2, b3, b4) == BCat(BCat(Run(b1, 1), Run(b2, 1)), BCat(Run(b3, 1), Run(b4, 1)))

\* ---- u32 <-> little-endian bytes ----------------------------------------
\* the header in network byte order instead: C4_WireFormat tells the code
\* from it
to_be_bytes(v) ==
    B4((v \div 16777216) % 256, (v \div 65536) % 256, (v \div 256) % 256, v % 256)

\* u32::to_le_bytes of a frame length (send_frame, vsh_wire.rs:80 and :168)
to_le_bytes(v) ==
    B4(v % 256, (v \div 256) % 256, (v \div 65536) % 256, (v \div 16777216) % 256)

\* u32::from_le_bytes (vsh_wire.rs:68 and :136).  A u32 does not fit the
\* checker's signed 32-bit integers, so the value is kept as its two 16-bit
\* halves: value = hi * 65536 + lo.
from_le_bytes(h) ==
    [hi |-> ByteAt(h, 4) * 256 + ByteAt(h, 3), lo |-> ByteAt(h, 2) * 256 + ByteAt(h, 1)]

\* a size check that looks at the upper half of the header only: lets lengths
\* 4097..65535 through (C2_BoundedRead tells the code from it)
FrameTooBig_upper_half(u) == u.hi > 0

\* frame_len > VSH_BUF_SIZE on the decoded header (vsh_wire.rs:70 and :138)
FrameTooBig(u) == u.hi > 0 \/ u.lo > VSH_BUF_SIZE

\* usize::try_from(u32): used only after the size check, where hi = 0
ToUsize(u) == u.hi * 65536 + u.lo

\* ---- the message schema (external collaborator) -------------------------
\* A message of the schema, after vsh.proto's ConnectionStatusMessage:
\* description (field 2, length-delimited) and code (field 3, varint).
\* init is Message::is_initialized(), which write_to_vec checks first.
NewMessage == [code |-> 0, desc |-> <<>>, init |-> TRUE]

\* protobuf base-128 varint, values below 16384 (one or two bytes)
Varint(v) ==
    IF v < 128 THEN Run(v, 1)
    ELSE BCat(Run((v % 128) + 128, 1), Run(v \div 128, 1))

\* the serialized form: fields in field-number order, defaults omitted
Encode(msg) ==
    BCat(IF msg.desc = <<>> THEN <<>>
         ELSE BCat(BCat(Run(18, 1), Varint(BLen(msg.desc))), msg.desc),
         IF msg.code = 0 THEN <<>>
         ELSE BCat(Run(24, 1), Varint(msg.code)))

\* msg.write_to_vec(&mut v) (vsh_wire.rs:99 and :181): appends the serialized
\* form to v; an uninitialized message fails before a byte is appended
write_to_vec(msg, v) ==
    IF msg.init THEN [ok |-> TRUE, buf |-> BCat(v, Encode(msg))]
    ELSE [ok |-> FALSE, buf |-> v]

\* a varint starting at byte i of s
ReadVarint(s, i) ==
    LET b1 == ByteAt(s, i)
        b2 == ByteAt(s, i + 1)
    IN  IF b1 = -1 THEN [ok |-> FALSE, val |-> 0, len |-> 0]
        ELSE IF b1 < 128 THEN [ok |-> TRUE, val |-> b1, len |-> 1]
        ELSE IF b2 = -1 \/ b2 >= 128 THEN [ok |-> FALSE, val |-> 0, len |-> 0]
        ELSE [ok |-> TRUE, val |-> (b1 - 128) + 128 * b2, len |-> 2]

\* msg.merge_from_bytes(bytes) (vsh_wire.rs:94 and :150): every field present
\* in bytes overwrites the field of msg; a field that is absent is left as it
\* was.  A tag of an invalid wire type or a truncated field is an error.
RECURSIVE merge_from_bytes(_, _)
merge_from_bytes(msg, s) ==
    IF s = <<>> THEN [ok |-> TRUE, msg |-> msg]
    ELSE LET tag == ByteAt(s, 1)
             v   == ReadVarint(s, 2)
         IN  IF tag = 24 /\ v.ok
             THEN merge_from_bytes([msg EXCEPT !.code = v.val], BDrop(s, 1 + v.len))
             ELSE IF tag = 18 /\ v.ok /\ BLen(s) >= 1 + v.len + v.val
             THEN merge_from_bytes(
                      [msg EXCEPT !.desc = BTake(BDrop(s, 1 + v.len), v.val)],
                      BDrop(s, 1 + v.len + v.val))
             ELSE [ok |-> FALSE, msg |-> msg]

\* ---- inputs ---------------------------------------------------------------
Desc(n) == Run(97, n)
Msg(c, n) == [code |-> c, desc |-> Desc(n), init |-> TRUE]

\* messages the application sends: serialized lengths 0, 13, 4096 (the bound)
\* and 4097 (above it), and one that fails to serialize
SendMsgs ==
    { Msg(0, 0), Msg(123, 9), Msg(0, VSH_BUF_SIZE - 3), Msg(0, VSH_BUF_SIZE - 2),
      [code |-> 5, desc |-> <<>>, init |-> FALSE] }

\* values the caller's out_message holds when receive_message is called
OutMsgs == { NewMessage, Msg(123, 9) }

Frame(payload) == BCat(to_le_bytes(BLen(payload)), payload)

\* byte strings the peer writes by itself: a well-formed frame, a frame whose
\* payload does not parse, headers above the bound (4097 and 0xFFFFFFFF), a
\* frame cut short in its payload, one cut short in its header, and a frame
\* of 3 bytes whose payload does not parse (its second field is cut short)
\* followed by a well-formed frame of 2 bytes
PeerInputs ==
    { Frame(Encode(Msg(123, 9))),
      Frame(BCat(Run(18, 1), Run(5, 1))),
      B4(1, 16, 0, 0),
      B4(255, 255, 255, 255),
      BCat(B4(3, 0, 0, 0), Run(24, 1)),
      BCat(Run(13, 1), Run(0, 1)),
      BCat(Frame(BCat(Encode(Msg(7, 0)), Run(24, 1))), Frame(Encode(Msg(5, 0)))) }

\* ---- state ------------------------------------------------------------------
VARIABLES
    mode,       \* "sync": VshWire on a blocking socket; "async": adapter + halves
    stage,      \* "raw", "adapter", "framed", "failed", "dropped"
    sock,       \* the socket: [nonblocking, released, link, outFull]
    inb,        \* bytes in the socket's receive queue (readable now)
    inflight,   \* bytes the peer has written that have not arrived yet
    outb,       \* bytes written by this endpoint that the peer has not read
    reactor,    \* [rd, wr]: wakers registered for the descriptor and not fired
    rd,         \* the receive_message call in flight / last finished
    wr,         \* the send_message call in flight / last finished
    rx_buf,     \* receive buffer of the framer
    tx_buf,     \* transmit buffer of the framer
    out_message,\* the caller's message object passed to receive_message
    gh          \* history variables: budgets spent, what was sent and received
                \* (cutRd / cutWr: a call of that direction was abandoned or
                \* failed after part of its frame was transferred; raw: the
                \* inbound stream is not the echo of what was sent; abRd / abWr:
                \* a call of that direction was abandoned mid-frame; txLog /
                \* rxLog: every byte the socket took from / gave to a call)

vars == <<mode, stage, sock, inb, inflight, outb, reactor, rd, wr, rx_buf, tx_buf,
          out_message, gh>>

\* rd and wr also carry history of the call: failed is the error of the first
\* transport read or write of the call that failed; held is the number of
\* bytes tx_buf held when send_message was called and prior the result of the
\* call of the same direction before it ("none": no call, or an abandoned one).
\* what the last poll_read / poll_write of a call saw and gave: the socket's
\* result k, the bytes asked for and available, whether a wakeup of the
\* reactor preceded it, whether the reactor accepted a registration, and the
\* Poll value, byte count and registrations
NoPoll ==
    [k |-> "none", want |-> 0, avail |-> 0, woke |-> FALSE, addOk |-> TRUE,
     poll |-> "none",
     ok |-> FALSE, n |-> 0, e |-> "none", reg |-> 0]

RdIdle ==
    [pc |-> "idle", susp |-> FALSE, woke |-> FALSE, hdr |-> <<>>, off |-> 0, len |-> 0,
     res |-> "none", err |-> "none", consumed |-> 0, preads |-> 0, regs |-> 0,
     failed |-> "none", prior |-> "none", last |-> NoPoll]

WrIdle ==
    [pc |-> "idle", susp |-> FALSE, woke |-> FALSE, off |-> 0, len |-> 0, cap |-> 0,
     res |-> "none", err |-> "none", size |-> 0, written |-> <<>>, regs |-> 0,
     failed |-> "none", held |-> 0, prior |-> "none", last |-> NoPoll]

Init ==
    /\ mode \in {"sync", "async"}
    /\ stage = "raw"
    /\ sock = [nonblocking |-> FALSE, released |-> 0, link |-> "up",
               outFull |-> FALSE]
    /\ inb = <<>>
    /\ inflight = <<>>
    /\ outb = <<>>
    /\ reactor = [rd |-> 0, wr |-> 0]
    /\ rd = RdIdle
    /\ wr = WrIdle
    /\ rx_buf = <<>>
    /\ tx_buf = <<>>
    /\ out_message = NewMessage
    /\ gh = [calls |-> 0, partials |-> 0, peerOps |-> 0, intr |-> 0,
             sentOk |-> <<>>, recvOk |-> 0, txLog |-> <<>>, rxLog |-> <<>>,
             raw |-> FALSE, abRd |-> FALSE, abWr |-> FALSE,
             cutRd |-> FALSE, cutWr |-> FALSE, closeRes |-> [poll |-> "none", ok |-> FALSE, release |-> 0], arg |-> NewMessage, prev |-> NewMessage]

\* ---- the operating-system socket -------------------------------------------
\* inner.read(buf) with a buffer of `want` bytes (unix.rs:59, vsock.rs:60).
\* "WouldBlock" is EAGAIN on a non-blocking socket; on a blocking socket it is
\* the case in which the call does not return yet.
SockRead(want) ==
    IF sock.link = "reset" THEN [k |-> "Err", n |-> 0, e |-> "ConnectionReset"]
    ELSE IF inb # <<>> THEN [k |-> "Ok", n |-> Min(want, BLen(inb)), e |-> "none"]
    ELSE IF sock.link = "shut" /\ inflight = <<>> THEN [k |-> "Ok", n |-> 0, e |-> "none"]
    ELSE [k |-> "WouldBlock", n |-> 0, e |-> "WouldBlock"]

\* sizes of a short transfer, while the budget of short transfers lasts
Pieces(total) ==
    IF gh.partials < MaxPartial THEN {n \in {1, 6, total} : n <= total} ELSE {total}

\* inner.write(buf) with `len` bytes to write (unix.rs:83, vsock.rs:84): the
\* results the kernel can give
SockWrite(len) ==
    IF sock.link = "reset" THEN {[k |-> "Err", n |-> 0, e |-> "BrokenPipe"]}
    ELSE IF sock.outFull THEN {[k |-> "WouldBlock", n |-> 0, e |-> "WouldBlock"]}
    ELSE {[k |-> "Ok", n |-> n, e |-> "none"] : n \in Pieces(len)}

\* ---- the stream adapter (unix.rs / vsock.rs) --------------------------------
\* a conversion that ignores the result of set_nonblocking and always wraps:
\* C10_Construction tells the code from it
try_from_unchecked ==
    /\ mode = "async"
    /\ stage = "raw"
    /\ \E ok \in BOOLEAN :
          /\ sock' = [sock EXCEPT !.nonblocking = ok]
          /\ stage' = "adapter"
    /\ UNCHANGED <<mode, inb, inflight, outb, reactor, rd, wr, rx_buf, tx_buf,
                   out_message, gh>>

\* TryFrom::try_from: set_nonblocking(true), then wrap.  On failure the socket
\* passed by value is dropped with the error, and no adapter exists.
try_from ==
    /\ mode = "async"
    /\ stage = "raw"
    /\ \E ok \in BOOLEAN :
          IF ok
          THEN /\ sock' = [sock EXCEPT !.nonblocking = TRUE]
               /\ stage' = "adapter"
          ELSE /\ sock' = [sock EXCEPT !.released = @ + 1]
               /\ stage' = "failed"
    /\ UNCHANGED <<mode, inb, inflight, outb, reactor, rd, wr, rx_buf, tx_buf,
                   out_message, gh>>

\* a poll_read that suspends although the reactor refused the waker:
\* C14_RegistrationFailure tells the code from it
poll_read_ignores_refusal(r, addOk) ==
    IF r.k = "Ok" THEN [poll |-> "Ready", ok |-> TRUE, n |-> r.n, e |-> "none", reg |-> 0]
    ELSE IF r.k = "WouldBlock"
    THEN [poll |-> "Pending", ok |-> FALSE, n |-> 0, e |-> "none",
          reg |-> IF addOk THEN 1 ELSE 0]
    ELSE [poll |-> "Ready", ok |-> FALSE, n |-> 0, e |-> r.e, reg |-> 0]

\* a poll_read that suspends on would-block without registering a waker:
\* C12_EventualCompletion tells the code from it
poll_read_no_waker(r, addOk) ==
    IF r.k = "Ok" THEN [poll |-> "Ready", ok |-> TRUE, n |-> r.n, e |-> "none", reg |-> 0]
    ELSE IF r.k = "WouldBlock"
    THEN [poll |-> "Pending", ok |-> FALSE, n |-> 0, e |-> "none", reg |-> 0]
    ELSE [poll |-> "Ready", ok |-> FALSE, n |-> 0, e |-> r.e, reg |-> 0]

\* a poll_read that registers a waker also when the read succeeded:
\* C6_ReadinessEdge tells the code from it
poll_read_always_arms(r, addOk) ==
    IF r.k = "Ok" THEN [poll |-> "Ready", ok |-> TRUE, n |-> r.n, e |-> "none", reg |-> 1]
    ELSE IF r.k = "WouldBlock"
    THEN IF addOk
         THEN [poll |-> "Pending", ok |-> FALSE, n |-> 0, e |-> "none", reg |-> 1]
         ELSE [poll |-> "Ready", ok |-> FALSE, n |-> 0, e |-> "Other", reg |-> 0]
    ELSE [poll |-> "Ready", ok |-> FALSE, n |-> 0, e |-> r.e, reg |-> 0]

\* AsyncRead::poll_read on the result r of inner.read; addOk is the result of
\* add_read_waker.  reg counts the wakers this call registered.
poll_read(r, addOk) ==
    IF r.k = "Ok" THEN [poll |-> "Ready", ok |-> TRUE, n |-> r.n, e |-> "none", reg |-> 0]
    ELSE IF r.k = "WouldBlock"
    THEN IF addOk
         THEN [poll |-> "Pending", ok |-> FALSE, n |-> 0, e |-> "none", reg |-> 1]
         ELSE [poll |-> "Ready", ok |-> FALSE, n |-> 0, e |-> "Other", reg |-> 0]
    ELSE [poll |-> "Ready", ok |-> FALSE, n |-> 0, e |-> r.e, reg |-> 0]

\* a poll_write that treats every failed write as would-block and registers a
\* waker: C13_RegistersOnWouldBlock tells the code from it
poll_write_arms_on_error(r, addOk) ==
    IF r.k = "Ok" THEN [poll |-> "Ready", ok |-> TRUE, n |-> r.n, e |-> "none", reg |-> 0]
    ELSE IF addOk
    THEN [poll |-> "Pending", ok |-> FALSE, n |-> 0, e |-> "none", reg |-> 1]
    ELSE [poll |-> "Ready", ok |-> FALSE, n |-> 0, e |-> "Other", reg |-> 0]

\* AsyncWrite::poll_write on the result r of inner.write; addOk is the result
\* of add_write_waker
poll_write(r, addOk) ==
    IF r.k = "Ok" THEN [poll |-> "Ready", ok |-> TRUE, n |-> r.n, e |-> "none", reg |-> 0]
    ELSE IF r.k = "WouldBlock"
    THEN IF addOk
         THEN [poll |-> "Pending", ok |-> FALSE, n |-> 0, e |-> "none", reg |-> 1]
         ELSE [poll |-> "Ready", ok |-> FALSE, n |-> 0, e |-> "Other", reg |-> 0]
    ELSE [poll |-> "Ready", ok |-> FALSE, n |-> 0, e |-> r.e, reg |-> 0]

\* AsyncWrite::poll_flush: ready at once, touches nothing; what it returns
poll_flush == [poll |-> "Ready", ok |-> TRUE, release |-> 0]

\* a poll_close that closes the descriptor itself: C9_ReleasedOnce tells the
\* code from it
poll_close_releasing == [poll |-> "Ready", ok |-> TRUE, release |-> 1]

\* AsyncWrite::poll_close: the result of poll_flush; the descriptor stays open
poll_close == poll_flush

\* the application calls close() (or flush()) on a live adapter
Close ==
    /\ mode = "async"
    /\ stage \in {"adapter", "framed"}
    /\ gh.calls < MaxCalls
    /\ sock' = [sock EXCEPT !.released = @ + poll_close.release]
    /\ gh' = [gh EXCEPT !.closeRes = poll_close, !.calls = @ + 1]
    /\ UNCHANGED <<mode, stage, inb, inflight, outb, reactor, rd, wr, rx_buf, tx_buf,
                   out_message>>

\* the adapter (async) or the framer owning the socket (sync) is dropped, when
\* no call borrows it: the inner std socket is dropped with it, which closes
\* the descriptor
Drop ==
    /\ stage \in {"adapter", "framed"}
    /\ rd.pc = "idle" /\ wr.pc = "idle"
    /\ stage' = "dropped"
    /\ sock' = [sock EXCEPT !.released = @ + 1]
    /\ UNCHANGED <<mode, inb, inflight, outb, reactor, rd, wr, rx_buf, tx_buf,
                   out_message, gh>>

\* ---- Vec<u8> ----------------------------------------------------------------
\* a truncate that leaves the vector as it is: C22_TransmitReset tells the code
\* from it
truncate_keeps(v, k) == v

\* Vec::truncate(k)
truncate(v, k) == BTake(v, k)

\* capacity of a Vec of capacity cap after it was extended to len bytes
\* (amortized growth: at least double, at least what is needed)
Grown(cap, len) == IF len <= cap THEN cap ELSE IF 2 * cap >= len THEN 2 * cap ELSE len

\* ---- the asynchronous framer halves (vsh_wire.rs:117-191) --------------------
\* VshAsyncRead::new and VshAsyncWrite::new over the adapter
VshAsync_new ==
    /\ mode = "async"
    /\ stage = "adapter"
    /\ stage' = "framed"
    /\ rx_buf' = Run(0, VSH_BUF_SIZE)
    /\ tx_buf' = Run(0, VSH_BUF_SIZE)
    /\ wr' = [wr EXCEPT !.cap = VSH_BUF_SIZE]
    /\ UNCHANGED <<mode, sock, inb, inflight, outb, reactor, rd, out_message, gh>>

\* a receive_message that takes up the frame an abandoned call left
\* unfinished: C16_Cancellation tells the code from it
VshAsyncRead_receive_message_call_resuming ==
    /\ mode = "async"
    /\ stage = "framed"
    /\ rd.pc = "idle"
    /\ gh.calls < MaxCalls
    /\ \E m \in OutMsgs :
          /\ out_message' = m
          /\ gh' = [gh EXCEPT !.calls = @ + 1, !.prev = m]
    /\ rd' = IF rd.res = "none" /\ rd.consumed > 0
             THEN [rd EXCEPT !.pc = IF BLen(rd.hdr) < 4 THEN "header" ELSE "payload"]
             ELSE [RdIdle EXCEPT !.pc = "header", !.prior = rd.res]
    /\ UNCHANGED <<mode, stage, sock, inb, inflight, outb, reactor, wr, rx_buf, tx_buf>>

\* VshAsyncRead::receive_message is called with the caller's message object
VshAsyncRead_receive_message_call ==
    /\ mode = "async"
    /\ stage = "framed"
    /\ rd.pc = "idle"
    /\ gh.calls < MaxCalls
    /\ \E m \in OutMsgs :
          /\ out_message' = m
          /\ gh' = [gh EXCEPT !.calls = @ + 1, !.prev = m]
    /\ rd' = [RdIdle EXCEPT !.pc = "header", !.prior = rd.res]
    /\ UNCHANGED <<mode, stage, sock, inb, inflight, outb, reactor, wr, rx_buf, tx_buf>>

\* VshAsyncRead owns its socket handle and its rx_buf, VshAsyncWrite its socket
\* handle and its tx_buf: a future of one half is runnable whenever it is in
\* progress and not suspended itself, whatever the other half does
ReadHalfRunnable == rd.pc \in {"header", "payload"} /\ ~rd.susp
\* a write half that waits for the read half (one operation in flight per
\* connection): C8_Independent tells the code from it
WriteHalfRunnable_after_read == wr.pc \in {"header", "payload"} /\ ~wr.susp /\ ~rd.susp
WriteHalfRunnable == wr.pc \in {"header", "payload"} /\ ~wr.susp

\* when the executor can poll the future of each half
VshAsyncRead_poll_enabled == mode = "async" /\ stage = "framed" /\ ReadHalfRunnable
VshAsyncWrite_poll_enabled == mode = "async" /\ stage = "framed" /\ WriteHalfRunnable

\* a receive_message that takes the end of the stream for the end of the
\* frame and returns success: C20_TruncatedStream tells the code from it
RecvFail_eof_is_success(r, res, e) ==
    IF e = "UnexpectedEof" THEN [r EXCEPT !.pc = "idle", !.susp = FALSE, !.res = "Ok"]
    ELSE [r EXCEPT !.pc = "idle", !.susp = FALSE, !.res = res, !.err = e]

\* the call returns an error of kind res (io error e)
RecvFail(r, res, e) == [r EXCEPT !.pc = "idle", !.susp = FALSE, !.res = res, !.err = e]

\* a receive_message that hands the parser the whole receive buffer instead of
\* its first frame_len bytes: C25_ReceiveBuffer tells the code from it
VshAsyncRead_parse_whole_buffer(r, rxb, outm) ==
    LET p == merge_from_bytes(outm, rxb)
    IN  [rd  |-> [r EXCEPT !.pc = "idle", !.susp = FALSE,
                           !.res = IF p.ok THEN "Ok" ELSE "DeserializeProto"],
         msg |-> p.msg]

\* VshAsyncRead::receive_message, line 150: parse the first frame_len bytes of
\* rx_buf into the caller's message.  Gives [rd, msg].
VshAsyncRead_parse(r, rxb, outm) ==
    LET p == merge_from_bytes(outm, BTake(rxb, r.len))
    IN  [rd  |-> [r EXCEPT !.pc = "idle", !.susp = FALSE,
                           !.res = IF p.ok THEN "Ok" ELSE "DeserializeProto"],
         msg |-> p.msg]

\* a receive_frame that, resumed inside the payload, stores the bytes at the
\* start of rx_buf again: C15_Resumption tells the code from it
VshAsyncRead_receive_frame_restarts(r, rxb, outm, data) ==
    LET n == BLen(data) IN
    IF r.pc = "header"
    THEN LET h  == BCat(r.hdr, data)
             r1 == [r EXCEPT !.hdr = h, !.consumed = @ + n]
             u  == from_le_bytes(h)
         IN  IF BLen(h) < 4 THEN [rd |-> r1, rx |-> rxb, msg |-> outm]
             ELSE IF FrameTooBig(u)
             THEN [rd |-> RecvFail(r1, "ReceiveMessage", "InvalidData"),
                   rx |-> rxb, msg |-> outm]
             ELSE LET r2 == [r1 EXCEPT !.len = ToUsize(u), !.off = 0, !.pc = "payload"]
                      p  == VshAsyncRead_parse(r2, rxb, outm)
                  IN  IF r2.len = 0 THEN [rd |-> p.rd, rx |-> rxb, msg |-> p.msg]
                      ELSE [rd |-> r2, rx |-> rxb, msg |-> outm]
    ELSE LET rxb1 == BWrite(rxb, 0, data)
             r1   == [r EXCEPT !.off = @ + n, !.consumed = @ + n]
             p    == VshAsyncRead_parse(r1, rxb1, outm)
         IN  IF r1.off < r1.len THEN [rd |-> r1, rx |-> rxb1, msg |-> outm]
             ELSE [rd |-> p.rd, rx |-> rxb1, msg |-> p.msg]

\* VshAsyncRead::receive_frame resumed with the bytes `data` that a poll_read
\* made ready (n = BLen(data) >= 1), followed by the rest of receive_message
\* up to the next read.  Gives [rd, rx, msg].
VshAsyncRead_receive_frame(r, rxb, outm, data) ==
    LET n == BLen(data) IN
    IF r.pc = "header"
    THEN LET h  == BCat(r.hdr, data)
             r1 == [r EXCEPT !.hdr = h, !.consumed = @ + n]
             u  == from_le_bytes(h)
         IN  IF BLen(h) < 4 THEN [rd |-> r1, rx |-> rxb, msg |-> outm]
             ELSE IF FrameTooBig(u)
             THEN [rd |-> RecvFail(r1, "ReceiveMessage", "InvalidData"),
                   rx |-> rxb, msg |-> outm]
             ELSE LET r2 == [r1 EXCEPT !.len = ToUsize(u), !.off = 0, !.pc = "payload"]
                      p  == VshAsyncRead_parse(r2, rxb, outm)
                  IN  IF r2.len = 0 THEN [rd |-> p.rd, rx |-> rxb, msg |-> p.msg]
                      ELSE [rd |-> r2, rx |-> rxb, msg |-> outm]
    ELSE LET rxb1 == BWrite(rxb, r.off, data)
             r1   == [r EXCEPT !.off = @ + n, !.consumed = @ + n]
             p    == VshAsyncRead_parse(r1, rxb1, outm)
         IN  IF r1.off < r1.len THEN [rd |-> r1, rx |-> rxb1, msg |-> outm]
             ELSE [rd |-> p.rd, rx |-> rxb1, msg |-> p.msg]

\* a payload read that offers the whole receive buffer to the socket instead
\* of its first frame_len bytes: C23_FrameAlignment tells the code from it
RdWant_whole_buffer(r) == IF r.pc = "header" THEN 4 - BLen(r.hdr) ELSE VSH_BUF_SIZE - r.off

\* bytes still wanted by the read_exact in progress
RdWant(r) == IF r.pc = "header" THEN 4 - BLen(r.hdr) ELSE r.len - r.off

\* one poll of the receive_message future: AsyncReadExt::read_exact calls
\* poll_read on the rest of its buffer; Pending suspends the future, Ok(0) is
\* UnexpectedEof, an error ends the call
VshAsyncRead_poll ==
    /\ VshAsyncRead_poll_enabled
    /\ \E addOk \in BOOLEAN :
          LET p    == poll_read(SockRead(RdWant(rd)), addOk)
              r0   == [rd EXCEPT !.preads = @ + (IF rd.pc = "payload" THEN 1 ELSE 0),
                                 !.regs = @ + p.reg, !.woke = FALSE,
                                 !.last = [k |-> SockRead(RdWant(rd)).k,
                                           want |-> RdWant(rd), avail |-> BLen(inb),
                                           woke |-> rd.woke, addOk |-> addOk,
                                           poll |-> p.poll,
                                           ok |-> p.ok, n |-> p.n, e |-> p.e,
                                           reg |-> p.reg]]
              data == BTake(inb, p.n)
              nx   == VshAsyncRead_receive_frame(r0, rx_buf, out_message, data)
          IN  /\ (SockRead(RdWant(rd)).k # "WouldBlock") => addOk
              /\ reactor' = [reactor EXCEPT !.rd = @ + p.reg]
              /\ IF p.poll = "Pending"
                 THEN /\ rd' = [r0 EXCEPT !.susp = TRUE]
                      /\ UNCHANGED <<inb, rx_buf, out_message, gh>>
                 ELSE IF ~p.ok
                 THEN /\ rd' = RecvFail([r0 EXCEPT !.failed = IF r0.last.k = "Err" THEN p.e ELSE @],
                                      "ReceiveMessage", p.e)
                      /\ gh' = [gh EXCEPT !.cutRd = @ \/ rd.consumed > 0]
                      /\ UNCHANGED <<inb, rx_buf, out_message>>
                 ELSE IF p.n = 0
                 THEN /\ rd' = RecvFail(r0, "ReceiveMessage", "UnexpectedEof")
                      /\ gh' = [gh EXCEPT !.cutRd = @ \/ rd.consumed > 0]
                      /\ UNCHANGED <<inb, rx_buf, out_message>>
                 ELSE /\ rd' = nx.rd
                      /\ rx_buf' = nx.rx
                      /\ out_message' = nx.msg
                      /\ inb' = BDrop(inb, p.n)
                      /\ gh' = [gh EXCEPT !.recvOk = @ + (IF nx.rd.res = "Ok" THEN 1 ELSE 0),
                                          !.rxLog = BCat(@, data)]
    /\ UNCHANGED <<mode, stage, sock, inflight, outb, wr, tx_buf>>

\* the call returns an error of kind res
SendFail(w, res, e) == [w EXCEPT !.pc = "idle", !.susp = FALSE, !.res = res, !.err = e]

\* a send_message without the size check: C3_OversizeSend tells the code from
\* it
VshAsyncWrite_send_message_unchecked(w, txb, msg) ==
    LET t  == truncate(txb, 0)
        s  == write_to_vec(msg, t)
        w0 == [WrIdle EXCEPT !.cap = Grown(w.cap, BLen(s.buf)),
                             !.held = BLen(txb), !.prior = w.res]
        frame_len == BLen(s.buf)
    IN  IF ~s.ok THEN [wr |-> SendFail(w0, "SerializeProto", "none"), tx |-> s.buf]
        ELSE [wr |-> [w0 EXCEPT !.pc = "header", !.len = frame_len], tx |-> s.buf]

\* a send_message that does not reset tx_buf, which VshAsyncWrite::new fills
\* with 4096 zero bytes while VshWire::new leaves it empty:
\* C19_SyncAsyncEquivalent tells the code from it
VshAsyncWrite_send_message_appending(w, txb, msg) ==
    LET s  == write_to_vec(msg, txb)
        w0 == [WrIdle EXCEPT !.cap = Grown(w.cap, BLen(s.buf)),
                             !.held = BLen(txb), !.prior = w.res]
        frame_len == BLen(s.buf)
    IN  IF ~s.ok THEN [wr |-> SendFail(w0, "SerializeProto", "none"), tx |-> s.buf]
        ELSE IF frame_len > VSH_BUF_SIZE
        THEN [wr |-> [SendFail(w0, "MessageTooBig", "none") EXCEPT !.size = frame_len],
              tx |-> s.buf]
        ELSE [wr |-> [w0 EXCEPT !.pc = "header", !.len = frame_len], tx |-> s.buf]

\* VshAsyncWrite::send_message up to the first write (lines 180-189): reset
\* the buffer, serialize, check the size.  Gives [wr, tx].
VshAsyncWrite_send_message(w, txb, msg) ==
    LET t  == truncate(txb, 0)
        s  == write_to_vec(msg, t)
        w0 == [WrIdle EXCEPT !.cap = Grown(w.cap, BLen(s.buf)),
                             !.held = BLen(txb), !.prior = w.res]
        frame_len == BLen(s.buf)
    IN  IF ~s.ok THEN [wr |-> SendFail(w0, "SerializeProto", "none"), tx |-> s.buf]
        ELSE IF frame_len > VSH_BUF_SIZE
        THEN [wr |-> [SendFail(w0, "MessageTooBig", "none") EXCEPT !.size = frame_len],
              tx |-> s.buf]
        ELSE [wr |-> [w0 EXCEPT !.pc = "header", !.len = frame_len], tx |-> s.buf]

\* the application calls send_message(msg) on the write half
VshAsyncWrite_send_message_call ==
    /\ mode = "async"
    /\ stage = "framed"
    /\ wr.pc = "idle"
    /\ gh.calls < MaxCalls
    /\ \E m \in SendMsgs :
          LET nx == VshAsyncWrite_send_message(wr, tx_buf, m)
          IN  /\ wr' = nx.wr
              /\ tx_buf' = nx.tx
              /\ gh' = [gh EXCEPT !.calls = @ + 1, !.arg = m]
    /\ UNCHANGED <<mode, stage, sock, inb, inflight, outb, reactor, rd, rx_buf,
                   out_message>>

\* the bytes the write_all in progress has still to write
VshAsyncWrite_pending(w, txb) ==
    IF w.pc = "header" THEN BDrop(to_le_bytes(w.len), w.off)
    ELSE BDrop(BTake(txb, w.len), w.off)

\* a send_frame that returns once the header is written: C5_FrameOrder tells
\* the code from it
VshAsyncWrite_send_frame_header_only(w, n) ==
    LET w1 == [w EXCEPT !.off = @ + n] IN
    IF w1.off < 4 THEN w1 ELSE [w1 EXCEPT !.pc = "idle", !.res = "Ok"]

\* VshAsyncWrite::send_frame resumed after a poll_write wrote n >= 1 bytes:
\* the header's write_all, then the payload's write_all, then Ok(())
VshAsyncWrite_send_frame(w, n) ==
    LET w1 == [w EXCEPT !.off = @ + n] IN
    IF w.pc = "header"
    THEN IF w1.off < 4 THEN w1
         ELSE IF w1.len = 0 THEN [w1 EXCEPT !.pc = "idle", !.res = "Ok"]
         ELSE [w1 EXCEPT !.pc = "payload", !.off = 0]
    ELSE IF w1.off < w1.len THEN w1
         ELSE [w1 EXCEPT !.pc = "idle", !.res = "Ok"]

\* one poll of the send_message future: AsyncWriteExt::write_all calls
\* poll_write on the rest of its buffer; Pending suspends the future, an
\* error ends the call.  A write shorter than asked fills the send queue.
VshAsyncWrite_poll ==
    /\ VshAsyncWrite_poll_enabled
    /\ LET todo == VshAsyncWrite_pending(wr, tx_buf) IN
       \E r \in SockWrite(BLen(todo)), addOk \in BOOLEAN :
          LET p    == poll_write(r, addOk)
              w0   == [wr EXCEPT !.regs = @ + p.reg, !.woke = FALSE,
                                 !.last = [k |-> r.k, want |-> BLen(todo), avail |-> 0,
                                           woke |-> wr.woke, addOk |-> addOk,
                                           poll |-> p.poll,
                                           ok |-> p.ok, n |-> p.n, e |-> p.e,
                                           reg |-> p.reg]]
              data == BTake(todo, p.n)
              nx   == VshAsyncWrite_send_frame(
                          [w0 EXCEPT !.written = BCat(@, data)], p.n)
          IN  /\ (r.k # "WouldBlock") => addOk
              /\ reactor' = [reactor EXCEPT !.wr = @ + p.reg]
              /\ IF p.poll = "Pending"
                 THEN /\ wr' = [w0 EXCEPT !.susp = TRUE]
                      /\ UNCHANGED <<outb, sock, gh>>
                 ELSE IF ~p.ok
                 THEN /\ wr' = SendFail([w0 EXCEPT !.failed = IF r.k = "Err" THEN p.e ELSE @],
                                      "SendMessage", p.e)
                      /\ gh' = [gh EXCEPT !.cutWr = @ \/ wr.written # <<>>]
                      /\ UNCHANGED <<outb, sock>>
                 ELSE /\ wr' = nx
                      /\ outb' = BCat(outb, data)
                      /\ sock' = [sock EXCEPT !.outFull = (p.n < BLen(todo))]
                      /\ gh' = [gh EXCEPT
                                  !.txLog = BCat(@, data),
                                  !.partials = @ + (IF p.n < BLen(todo) THEN 1 ELSE 0),
                                  !.sentOk = IF nx.res = "Ok" THEN Append(@, gh.arg) ELSE @]
    /\ UNCHANGED <<mode, stage, inb, inflight, rd, rx_buf, tx_buf, out_message>>

\* ---- the synchronous framer (vsh_wire.rs:47-109) ------------------------------
\* VshWire::new over a connected blocking socket
VshWire_new ==
    /\ mode = "sync"
    /\ stage = "raw"
    /\ stage' = "framed"
    /\ rx_buf' = Run(0, VSH_BUF_SIZE)
    /\ tx_buf' = <<>>
    /\ wr' = [wr EXCEPT !.cap = VSH_BUF_SIZE]
    /\ UNCHANGED <<mode, sock, inb, inflight, outb, reactor, rd, out_message, gh>>

\* VshWire::receive_message is called with the caller's message object
VshWire_receive_message_call ==
    /\ mode = "sync"
    /\ stage = "framed"
    /\ rd.pc = "idle" /\ wr.pc = "idle"
    /\ gh.calls < MaxCalls
    /\ \E m \in OutMsgs :
          /\ out_message' = m
          /\ gh' = [gh EXCEPT !.calls = @ + 1, !.prev = m]
    /\ rd' = [RdIdle EXCEPT !.pc = "header", !.prior = rd.res]
    /\ UNCHANGED <<mode, stage, sock, inb, inflight, outb, reactor, wr, rx_buf, tx_buf>>

\* a receive_message that reports a parse failure as a receive error:
\* C11_ErrorKinds tells the code from it
VshWire_parse_as_receive_error(r, rxb, outm) ==
    LET p == merge_from_bytes(outm, BTake(rxb, r.len))
    IN  [rd  |-> [r EXCEPT !.pc = "idle",
                           !.res = IF p.ok THEN "Ok" ELSE "ReceiveMessage"],
         msg |-> p.msg]

\* VshWire::receive_message, line 94.  Gives [rd, msg].
VshWire_parse(r, rxb, outm) ==
    LET p == merge_from_bytes(outm, BTake(rxb, r.len))
    IN  [rd  |-> [r EXCEPT !.pc = "idle",
                           !.res = IF p.ok THEN "Ok" ELSE "DeserializeProto"],
         msg |-> p.msg]

\* VshWire::receive_frame continued with the bytes `data` that a read
\* returned (n >= 1), followed by the rest of receive_message up to the next
\* read.  Gives [rd, rx, msg].
VshWire_receive_frame(r, rxb, outm, data) ==
    LET n == BLen(data) IN
    IF r.pc = "header"
    THEN LET frame_len_bytes == BCat(r.hdr, data)
             r1 == [r EXCEPT !.hdr = frame_len_bytes, !.consumed = @ + n]
             u  == from_le_bytes(frame_len_bytes)
         IN  IF BLen(frame_len_bytes) < 4 THEN [rd |-> r1, rx |-> rxb, msg |-> outm]
             ELSE IF FrameTooBig(u)
             THEN [rd |-> RecvFail(r1, "ReceiveMessage", "InvalidData"),
                   rx |-> rxb, msg |-> outm]
             ELSE LET r2 == [r1 EXCEPT !.len = ToUsize(u), !.off = 0, !.pc = "payload"]
                      p  == VshWire_parse(r2, rxb, outm)
                  IN  IF r2.len = 0 THEN [rd |-> p.rd, rx |-> rxb, msg |-> p.msg]
                      ELSE [rd |-> r2, rx |-> rxb, msg |-> outm]
    ELSE LET rxb1 == BWrite(rxb, r.off, data)
             r1   == [r EXCEPT !.off = @ + n, !.consumed = @ + n]
             p    == VshWire_parse(r1, rxb1, outm)
         IN  IF r1.off < r1.len THEN [rd |-> r1, rx |-> rxb1, msg |-> outm]
             ELSE [rd |-> p.rd, rx |-> rxb1, msg |-> p.msg]

\* one read of Read::read_exact inside receive_frame.  The socket is blocking:
\* the read returns once bytes, end of stream or an error is there, or fails
\* with Interrupted (EINTR) when a signal arrives while it waits.  read_exact
\* ignores Interrupted and reads again; every other error ends the call; Ok(0)
\* is UnexpectedEof.
VshWire_read ==
    /\ mode = "sync"
    /\ stage = "framed"
    /\ rd.pc \in {"header", "payload"}
    /\ LET r    == SockRead(RdWant(rd))
           r0   == [rd EXCEPT !.preads = @ + (IF rd.pc = "payload" THEN 1 ELSE 0)]
           data == BTake(inb, r.n)
           nx   == VshWire_receive_frame(r0, rx_buf, out_message, data)
       IN  IF r.k = "WouldBlock"
           THEN /\ gh.intr < MaxIntr
                /\ rd' = [rd EXCEPT !.failed = IF @ = "none" THEN "Interrupted" ELSE @]
                /\ gh' = [gh EXCEPT !.intr = @ + 1]
                /\ UNCHANGED <<inb, rx_buf, out_message>>
           ELSE
              IF r.k = "Err"
              THEN /\ rd' = RecvFail([r0 EXCEPT !.failed = IF @ = "none" THEN r.e ELSE @],
                                      "ReceiveMessage", r.e)
                   /\ gh' = [gh EXCEPT !.cutRd = @ \/ rd.consumed > 0]
                   /\ UNCHANGED <<inb, rx_buf, out_message>>
              ELSE IF r.n = 0
              THEN /\ rd' = RecvFail(r0, "ReceiveMessage", "UnexpectedEof")
                   /\ gh' = [gh EXCEPT !.cutRd = @ \/ rd.consumed > 0]
                   /\ UNCHANGED <<inb, rx_buf, out_message>>
              ELSE /\ rd' = nx.rd
                   /\ rx_buf' = nx.rx
                   /\ out_message' = nx.msg
                   /\ inb' = BDrop(inb, r.n)
                   /\ gh' = [gh EXCEPT !.recvOk = @ + (IF nx.rd.res = "Ok" THEN 1 ELSE 0),
                                       !.rxLog = BCat(@, data)]
    /\ UNCHANGED <<mode, stage, sock, inflight, outb, reactor, wr, tx_buf>>

\* a send_message whose bound excludes 4096: C17_InclusiveBound tells the code
\* from it
VshWire_send_message_exclusive(w, txb, msg) ==
    LET t  == truncate(txb, 0)
        s  == write_to_vec(msg, t)
        w0 == [WrIdle EXCEPT !.cap = Grown(w.cap, BLen(s.buf)),
                             !.held = BLen(txb), !.prior = w.res]
        frame_len == BLen(s.buf)
    IN  IF ~s.ok THEN [wr |-> SendFail(w0, "SerializeProto", "none"), tx |-> s.buf]
        ELSE IF frame_len >= VSH_BUF_SIZE
        THEN [wr |-> [SendFail(w0, "MessageTooBig", "none") EXCEPT !.size = frame_len],
              tx |-> s.buf]
        ELSE [wr |-> [w0 EXCEPT !.pc = "header", !.len = frame_len], tx |-> s.buf]

\* VshWire::send_message up to the first write (lines 98-107).  Gives [wr, tx].
VshWire_send_message(w, txb, msg) ==
    LET t  == truncate(txb, 0)
        s  == write_to_vec(msg, t)
        w0 == [WrIdle EXCEPT !.cap = Grown(w.cap, BLen(s.buf)),
                             !.held = BLen(txb), !.prior = w.res]
        frame_len == BLen(s.buf)
    IN  IF ~s.ok THEN [wr |-> SendFail(w0, "SerializeProto", "none"), tx |-> s.buf]
        ELSE IF frame_len > VSH_BUF_SIZE
        THEN [wr |-> [SendFail(w0, "MessageTooBig", "none") EXCEPT !.size = frame_len],
              tx |-> s.buf]
        ELSE [wr |-> [w0 EXCEPT !.pc = "header", !.len = frame_len], tx |-> s.buf]

\* the application calls send_message(msg) on the framer
VshWire_send_message_call ==
    /\ mode = "sync"
    /\ stage = "framed"
    /\ rd.pc = "idle" /\ wr.pc = "idle"
    /\ gh.calls < MaxCalls
    /\ \E m \in SendMsgs :
          LET nx == VshWire_send_message(wr, tx_buf, m)
          IN  /\ wr' = nx.wr
              /\ tx_buf' = nx.tx
              /\ gh' = [gh EXCEPT !.calls = @ + 1, !.arg = m]
    /\ UNCHANGED <<mode, stage, sock, inb, inflight, outb, reactor, rd, rx_buf,
                   out_message>>

\* the bytes the write_all in progress has still to write
VshWire_pending(w, txb) ==
    IF w.pc = "header" THEN BDrop(to_le_bytes(w.len), w.off)
    ELSE BDrop(BTake(txb, w.len), w.off)

\* VshWire::send_frame continued after a write wrote n >= 1 bytes
VshWire_send_frame(w, n) ==
    LET w1 == [w EXCEPT !.off = @ + n] IN
    IF w.pc = "header"
    THEN IF w1.off < 4 THEN w1
         ELSE IF w1.len = 0 THEN [w1 EXCEPT !.pc = "idle", !.res = "Ok"]
         ELSE [w1 EXCEPT !.pc = "payload", !.off = 0]
    ELSE IF w1.off < w1.len THEN w1
         ELSE [w1 EXCEPT !.pc = "idle", !.res = "Ok"]

\* one write of Write::write_all inside send_frame; the blocking write returns
\* once it wrote at least one byte or failed, with Interrupted (EINTR) when a
\* signal arrives while it waits.  write_all ignores Interrupted and writes
\* again; every other error ends the call.
VshWire_write ==
    /\ mode = "sync"
    /\ stage = "framed"
    /\ wr.pc \in {"header", "payload"}
    /\ LET todo == VshWire_pending(wr, tx_buf) IN
       \E r \in SockWrite(BLen(todo)) :
          LET data == BTake(todo, r.n)
              nx   == VshWire_send_frame([wr EXCEPT !.written = BCat(@, data)], r.n)
          IN  IF r.k = "WouldBlock"
              THEN /\ gh.intr < MaxIntr
                   /\ wr' = [wr EXCEPT !.failed = IF @ = "none" THEN "Interrupted" ELSE @]
                   /\ gh' = [gh EXCEPT !.intr = @ + 1]
                   /\ UNCHANGED <<outb, sock>>
              ELSE
                 IF r.k = "Err"
                 THEN /\ wr' = SendFail([wr EXCEPT !.failed = IF @ = "none" THEN r.e ELSE @],
                                         "SendMessage", r.e)
                      /\ gh' = [gh EXCEPT !.cutWr = @ \/ wr.written # <<>>]
                      /\ UNCHANGED <<outb, sock>>
                 ELSE /\ wr' = nx
                      /\ outb' = BCat(outb, data)
                      /\ sock' = [sock EXCEPT !.outFull = (r.n < BLen(todo))]
                      /\ gh' = [gh EXCEPT
                                  !.txLog = BCat(@, data),
                                  !.partials = @ + (IF r.n < BLen(todo) THEN 1 ELSE 0),
                                  !.sentOk = IF nx.res = "Ok" THEN Append(@, gh.arg) ELSE @]
    /\ UNCHANGED <<mode, stage, inb, inflight, reactor, rd, rx_buf, tx_buf, out_message>>

\* ---- the executor: abandoned and re-polled futures ------------------------------
\* the suspended receive_message future is dropped by its owner
AbandonReceive ==
    /\ mode = "async"
    /\ stage = "framed"
    /\ rd.pc \in {"header", "payload"}
    /\ rd.susp
    /\ rd' = [rd EXCEPT !.pc = "idle", !.susp = FALSE]
    /\ gh' = [gh EXCEPT !.cutRd = @ \/ rd.consumed > 0, !.abRd = @ \/ rd.consumed > 0]
    /\ UNCHANGED <<mode, stage, sock, inb, inflight, outb, reactor, wr, rx_buf, tx_buf,
                   out_message>>

\* the suspended send_message future is dropped by its owner
AbandonSend ==
    /\ mode = "async"
    /\ stage = "framed"
    /\ wr.pc \in {"header", "payload"}
    /\ wr.susp
    /\ wr' = [wr EXCEPT !.pc = "idle", !.susp = FALSE]
    /\ gh' = [gh EXCEPT !.cutWr = @ \/ wr.written # <<>>, !.abWr = @ \/ wr.written # <<>>]
    /\ UNCHANGED <<mode, stage, sock, inb, inflight, outb, reactor, rd, rx_buf, tx_buf,
                   out_message>>

\* a suspended future is polled again although no waker of it fired (a
\* combinator polling all its children, a spurious wakeup)
RepollReceive ==
    /\ mode = "async"
    /\ stage = "framed"
    /\ rd.susp
    /\ reactor.rd <= MaxRepoll
    /\ rd' = [rd EXCEPT !.susp = FALSE]
    /\ UNCHANGED <<mode, stage, sock, inb, inflight, outb, reactor, wr, rx_buf, tx_buf,
                   out_message, gh>>

RepollSend ==
    /\ mode = "async"
    /\ stage = "framed"
    /\ wr.susp
    /\ reactor.wr <= MaxRepoll
    /\ wr' = [wr EXCEPT !.susp = FALSE]
    /\ UNCHANGED <<mode, stage, sock, inb, inflight, outb, reactor, rd, rx_buf, tx_buf,
                   out_message, gh>>

\* ---- the reactor (external collaborator) ------------------------------------------
ReadReady == sock.link = "reset" \/ inb # <<>> \/ (sock.link = "shut" /\ inflight = <<>>)
WriteReady == sock.link = "reset" \/ ~sock.outFull

ReactorFireRead_enabled == stage = "framed" /\ reactor.rd > 0 /\ ReadReady
ReactorFireWrite_enabled == stage = "framed" /\ reactor.wr > 0 /\ WriteReady

\* a registered read waker fires once the descriptor is readable
ReactorFireRead ==
    /\ ReactorFireRead_enabled
    /\ reactor' = [reactor EXCEPT !.rd = @ - 1]
    /\ rd' = [rd EXCEPT !.susp = FALSE, !.woke = rd.susp]
    /\ UNCHANGED <<mode, stage, sock, inb, inflight, outb, wr, rx_buf, tx_buf,
                   out_message, gh>>

\* a registered write waker fires once the descriptor is writable
ReactorFireWrite ==
    /\ ReactorFireWrite_enabled
    /\ reactor' = [reactor EXCEPT !.wr = @ - 1]
    /\ wr' = [wr EXCEPT !.susp = FALSE, !.woke = wr.susp]
    /\ UNCHANGED <<mode, stage, sock, inb, inflight, outb, rd, rx_buf, tx_buf,
                   out_message, gh>>

\* ---- the kernel and the peer -----------------------------------------------------
\* The peer is either a source of byte strings of its own, or it echoes: it
\* writes by itself only while this endpoint has written nothing, and it
\* echoes only while it has written nothing by itself.
\* the peer writes a byte string of its own, and may then shut down its end
PeerWrite ==
    /\ stage = "framed"
    /\ sock.link = "up"
    /\ gh.peerOps < MaxPeerOps
    /\ gh.txLog = <<>>
    /\ \E bs \in PeerInputs : inflight' = BCat(inflight, bs)
    /\ \E fin \in BOOLEAN : sock' = [sock EXCEPT !.link = IF fin THEN "shut" ELSE "up"]
    /\ gh' = [gh EXCEPT !.peerOps = @ + 1, !.raw = TRUE]
    /\ UNCHANGED <<mode, stage, inb, outb, reactor, rd, wr, rx_buf, tx_buf,
                   out_message>>

\* the peer reads everything this endpoint wrote and writes it back unchanged.
\* (When the peer reads matters to this endpoint only through the room it
\* makes in a full send queue; how the echoed bytes are cut into pieces is
\* the choice of Deliver.)
PeerLoop ==
    /\ stage = "framed"
    /\ sock.link = "up"
    /\ ~gh.raw
    /\ sock.outFull \/ wr.pc = "idle"
    /\ outb # <<>>
    /\ inflight' = BCat(inflight, outb)
    /\ outb' = <<>>
    /\ sock' = [sock EXCEPT !.outFull = FALSE]
    /\ UNCHANGED <<mode, stage, inb, reactor, rd, wr, rx_buf, tx_buf, out_message, gh>>

PeerDrain_enabled == stage = "framed" /\ sock.link # "reset" /\ sock.outFull

\* the peer reads everything this endpoint wrote and keeps it
PeerDrain ==
    /\ PeerDrain_enabled
    /\ outb' = <<>>
    /\ sock' = [sock EXCEPT !.outFull = FALSE]
    /\ gh' = [gh EXCEPT !.raw = @ \/ outb # <<>>]
    /\ UNCHANGED <<mode, stage, inb, inflight, reactor, rd, wr, rx_buf, tx_buf,
                   out_message>>

Deliver_enabled == stage = "framed" /\ rd.pc # "idle" /\ inflight # <<>>

\* bytes written by the peer arrive in the receive queue, whole or in pieces
\* (an arrival is observable only by a receive in progress)
Deliver ==
    /\ Deliver_enabled
    /\ \E k \in Pieces(BLen(inflight)) :
          /\ inb' = BCat(inb, BTake(inflight, k))
          /\ inflight' = BDrop(inflight, k)
          /\ gh' = [gh EXCEPT !.partials = @ + (IF k < BLen(inflight) THEN 1 ELSE 0)]
    /\ UNCHANGED <<mode, stage, sock, outb, reactor, rd, wr, rx_buf, tx_buf, out_message>>

\* bytes in flight arrive a few at a time, in as many pieces as it takes
DeliverPiece ==
    /\ Deliver_enabled
    /\ \E k \in 1..MaxPiece :
          /\ k <= BLen(inflight)
          /\ inb' = BCat(inb, BTake(inflight, k))
          /\ inflight' = BDrop(inflight, k)
    /\ UNCHANGED <<mode, stage, sock, outb, reactor, rd, wr, rx_buf, tx_buf, out_message,
                   gh>>

\* the peer closes its end: after the bytes in flight, reads return 0
PeerClose ==
    /\ stage = "framed"
    /\ sock.link = "up"
    /\ gh.peerOps < MaxPeerOps
    /\ sock' = [sock EXCEPT !.link = "shut"]
    /\ gh' = [gh EXCEPT !.peerOps = @ + 1]
    /\ UNCHANGED <<mode, stage, inb, inflight, outb, reactor, rd, wr, rx_buf, tx_buf,
                   out_message>>

\* the connection breaks: queued bytes are lost, reads and writes fail
ConnReset ==
    /\ stage = "framed"
    /\ sock.link # "reset"
    /\ gh.peerOps < MaxPeerOps
    /\ sock' = [sock EXCEPT !.link = "reset"]
    /\ inb' = <<>>
    /\ inflight' = <<>>
    /\ gh' = [gh EXCEPT !.peerOps = @ + 1]
    /\ UNCHANGED <<mode, stage, outb, reactor, rd, wr, rx_buf, tx_buf, out_message>>

Next ==
    \/ try_from
    \/ Close
    \/ Drop
    \/ VshAsync_new
    \/ VshAsyncRead_receive_message_call
    \/ VshAsyncRead_poll
    \/ VshAsyncWrite_send_message_call
    \/ VshAsyncWrite_poll
    \/ VshWire_new
    \/ VshWire_receive_message_call
    \/ VshWire_read
    \/ VshWire_send_message_call
    \/ VshWire_write
    \/ AbandonReceive
    \/ AbandonSend
    \/ RepollReceive
    \/ RepollSend
    \/ ReactorFireRead
    \/ ReactorFireWrite
    \/ PeerWrite
    \/ PeerLoop
    \/ PeerDrain
    \/ Deliver
    \/ PeerClose
    \/ ConnReset

Spec == Init /\ [][Next]_vars

\* One connection used in both directions by the two asynchronous halves, with
\* a peer that writes and reads as it likes; no future is abandoned or polled
\* without a wakeup.  No fairness is assumed: the properties checked under it
\* state the fairness they need.
InitDuplex == Init /\ mode = "async"

NextDuplex ==
    \/ try_from
    \/ VshAsync_new
    \/ VshAsyncRead_receive_message_call
    \/ VshAsyncRead_poll
    \/ VshAsyncWrite_send_message_call
    \/ VshAsyncWrite_poll
    \/ ReactorFireRead
    \/ ReactorFireWrite
    \/ PeerWrite
    \/ PeerDrain
    \/ Deliver

SpecDuplex == InitDuplex /\ [][NextDuplex]_vars

\* One receiving half whose inbound bytes arrive in every split into pieces of
\* 1..MaxPiece bytes, with a suspension wherever the receive finds nothing.
InitResume == Init /\ mode = "async"

NextResume ==
    \/ try_from
    \/ VshAsync_new
    \/ VshAsyncRead_receive_message_call
    \/ VshAsyncRead_poll
    \/ ReactorFireRead
    \/ PeerWrite
    \/ DeliverPiece

SpecResume == InitResume /\ [][NextResume]_vars

\* weak fairness of the write side: the executor polls a runnable send future,
\* the reactor delivers the wakeup of a registered write waker, the peer reads
\* what it is sent
WriteSideFair ==
    /\ []<>(~VshAsyncWrite_poll_enabled) \/ []<><<VshAsyncWrite_poll>>_vars
    /\ []<>(~ReactorFireWrite_enabled) \/ []<><<ReactorFireWrite>>_vars
    /\ []<>(~PeerDrain_enabled) \/ []<><<PeerDrain>>_vars

\* weak fairness of the read side: the executor polls a runnable receive
\* future, the reactor delivers the wakeup of a registered read waker, bytes
\* in flight arrive
ReadSideFair ==
    /\ []<>(~VshAsyncRead_poll_enabled) \/ []<><<VshAsyncRead_poll>>_vars
    /\ []<>(~ReactorFireRead_enabled) \/ []<><<ReactorFireRead>>_vars
    /\ []<>(~Deliver_enabled) \/ []<><<Deliver>>_vars

\* ---- properties ---------------------------------------------------------------------
\* the frames of a sequence of messages, one after the other
RECURSIVE FramesOf(_)
FramesOf(ms) ==
    IF ms = <<>> THEN <<>> ELSE BCat(Frame(Encode(Head(ms))), FramesOf(Tail(ms)))

\* the length L as four little-endian bytes, for L <= 4096 (two bytes suffice)
LE4(L) == B4(L % 256, L \div 256, 0, 0)

\* the inbound stream is the echo of the outbound one, and no call of either
\* direction stopped in the middle of a frame
CleanEcho == ~gh.raw /\ ~gh.cutRd /\ ~gh.cutWr

RecvFinished == rd.pc = "idle" /\ rd.res # "none"
SendFinished == wr.pc = "idle" /\ wr.res # "none"

\* C1: round trip.  When the inbound stream is the echo of the frames sent and
\* the connection is intact, every receive_message that finished has succeeded
\* and left in the caller's message exactly the message that was sent, in all
\* fields.
C1_RoundTrip ==
    (RecvFinished /\ CleanEcho /\ sock.link = "up" /\ rd.err # "Other")
        => /\ rd.res = "Ok"
           /\ gh.recvOk <= Len(gh.sentOk)
           /\ out_message = gh.sentOk[gh.recvOk]

\* The same round trip for calls that pass a newly constructed message, as the
\* repository's test send_recv_valid does.
C1_RoundTripIntoNew ==
    (RecvFinished /\ CleanEcho /\ sock.link = "up" /\ rd.err # "Other"
       /\ gh.prev = NewMessage)
        => /\ rd.res = "Ok"
           /\ gh.recvOk <= Len(gh.sentOk)
           /\ out_message = gh.sentOk[gh.recvOk]

C1_Witness ==
    /\ RecvFinished /\ CleanEcho /\ rd.res = "Ok" /\ gh.prev = NewMessage
    /\ out_message = Msg(0, VSH_BUF_SIZE - 3)

\* the four header bytes h encode a length above 4096
HeaderAbove(h) ==
    ByteAt(h, 4) > 0 \/ ByteAt(h, 3) > 0 \/ ByteAt(h, 2) * 256 + ByteAt(h, 1) > 4096

\* C2: bounded read.  Once the four header bytes read by receive_message encode
\* a length above 4096, the call has returned the receive error (invalid frame
\* size), has consumed exactly the four header bytes and has issued no read
\* for the payload, in the synchronous and in the asynchronous framer.
C2_BoundedRead ==
    (BLen(rd.hdr) = 4 /\ HeaderAbove(rd.hdr))
        => /\ rd.pc = "idle"
           /\ rd.res = "ReceiveMessage" /\ rd.err = "InvalidData"
           /\ rd.consumed = 4
           /\ rd.preads = 0

C2_Witness ==
    /\ mode = "async"
    /\ rd.hdr = B4(255, 255, 255, 255)
    /\ rd.res = "ReceiveMessage"
    /\ rd.regs > 0

\* C3: rejected oversize send.  A send_message of a message whose serialized
\* length L is above 4096 has failed with MessageTooBig(L) and has written no
\* byte to the transport, in both framers.
C3_OversizeSend ==
    (gh.arg.init /\ BLen(Encode(gh.arg)) > 4096)
        => /\ wr.pc = "idle"
           /\ wr.res = "MessageTooBig"
           /\ wr.size = BLen(Encode(gh.arg))
           /\ wr.written = <<>>
           /\ wr.last = NoPoll

C3_Witness ==
    /\ mode = "async"
    /\ wr.res = "MessageTooBig" /\ wr.size = 4097
    /\ gh.txLog # <<>>

\* C4: wire format.  Every send_message that returned success has written to
\* the transport exactly the four little-endian bytes of L followed by the L
\* bytes of the message's serialization, and L <= 4096.
C4_WireFormat ==
    (wr.res = "Ok")
        => LET L == BLen(Encode(gh.arg))
           IN  /\ L <= 4096
               /\ wr.written = BCat(LE4(L), Encode(gh.arg))
               /\ BLen(wr.written) = 4 + L

C4_Witness ==
    /\ wr.res = "Ok" /\ gh.arg = Msg(0, VSH_BUF_SIZE - 3) /\ gh.partials > 0

\* the bytes of the frame being received that were consumed so far
RdPartial ==
    IF rd.pc \in {"header", "payload"} THEN BCat(rd.hdr, BTake(rx_buf, rd.off)) ELSE <<>>

\* C5: per-direction frame ordering.  Outbound: everything ever written is the
\* frames of the completed sends, in order, followed by a prefix of the frame
\* of the send in progress; the payload starts only after the four header
\* bytes.  Inbound: a receive consumes its header, then its payload, and
\* returns only when it consumed 4 + L bytes; on an echoed stream the bytes
\* consumed are the frames received so far followed by the part of the next
\* frame, so no byte of frame N+1 is taken before the last byte of frame N.
C5_FrameOrder ==
    /\ ~gh.cutWr =>
          gh.txLog = BCat(FramesOf(gh.sentOk), IF wr.res = "Ok" THEN <<>> ELSE wr.written)
    /\ wr.pc = "header" => BLen(wr.written) = wr.off /\ wr.off < 4
    /\ wr.pc = "payload" => BLen(wr.written) = 4 + wr.off /\ wr.off < wr.len
    /\ wr.written = BTake(BCat(LE4(wr.len), Encode(gh.arg)), BLen(wr.written))
    /\ rd.pc = "header" => rd.consumed = BLen(rd.hdr) /\ rd.consumed < 4
    /\ rd.pc = "payload" =>
          BLen(rd.hdr) = 4 /\ rd.consumed = 4 + rd.off /\ rd.off < rd.len
    /\ rd.res \in {"Ok", "DeserializeProto"} => rd.consumed = 4 + rd.len
    /\ (CleanEcho /\ sock.link # "reset") =>
          /\ gh.recvOk <= Len(gh.sentOk)
          /\ gh.txLog =
                BCat(BCat(BCat(BCat(FramesOf(SubSeq(gh.sentOk, 1, gh.recvOk)), RdPartial),
                               inb), inflight), outb)

C5_Witness ==
    /\ mode = "async"
    /\ Len(gh.sentOk) = 2
    /\ gh.sentOk[1] # gh.sentOk[2]
    /\ wr.regs > 0
    /\ gh.partials > 0

\* C6: readiness edge.  A poll_read that finds nothing to read (would block),
\* the reactor accepting the waker, registers one read waker and returns
\* Pending.  A poll_read made after the registered interest fired, with bytes
\* in the receive queue, returns Ready(Ok(n)) with the n = min(asked,
\* available) >= 1 bytes and registers nothing.
C6_ReadinessEdge ==
    /\ (rd.last.k = "WouldBlock" /\ rd.last.addOk) =>
          /\ rd.last.avail = 0
          /\ rd.last.poll = "Pending"
          /\ rd.last.reg = 1
    /\ (rd.last.woke /\ rd.last.avail > 0) =>
          /\ rd.last.poll = "Ready" /\ rd.last.ok
          /\ rd.last.n = Min(rd.last.want, rd.last.avail)
          /\ rd.last.n >= 1
          /\ rd.last.reg = 0

C6_Witness ==
    /\ rd.last.woke /\ rd.last.avail > 0
    /\ rd.last.poll = "Ready" /\ rd.last.n = rd.last.avail
    /\ rd.regs = 1
    /\ reactor.rd = 0

\* C7: at most one outstanding registration per direction: never more than one
\* registered and not yet fired waker for reading, nor for writing.
C7_OneRegistration == reactor.rd <= 1 /\ reactor.wr <= 1

\* the bytes on their way to the receive_message in progress hold what lets it
\* finish: a whole frame, a header above the bound, or the end of the stream
InboundDecides ==
    LET pend == BCat(BCat(RdPartial, inb), inflight)
        h    == BTake(pend, 4)
    IN  \/ sock.link # "up"
        \/ /\ BLen(pend) >= 4
           /\ HeaderAbove(h) \/ BLen(pend) >= 4 + ByteAt(h, 2) * 256 + ByteAt(h, 1)

\* C8: independent directions.  With only the write side of the connection
\* served (the peer may never write, so that a receive_message stays suspended
\* for ever), every send_message in progress runs to completion; and with only
\* the read side served (the peer may never read, so that a send_message stays
\* suspended for ever), every receive_message whose frame is on its way runs
\* to completion.
C8_Independent ==
    /\ WriteSideFair => ((wr.pc # "idle") ~> (wr.pc = "idle"))
    /\ ReadSideFair => ((rd.pc # "idle" /\ InboundDecides) ~> (rd.pc = "idle"))

\* a send_message ran to completion, whole frame written, while the
\* receive_message stayed suspended with no wakeup
C8_Witness ==
    /\ rd.pc = "header" /\ rd.susp /\ rd.regs = 1 /\ reactor.rd = 1
    /\ wr.res = "Ok" /\ BLen(wr.written) = 4 + VSH_BUF_SIZE

\* C9: the descriptor is released exactly once, when the adapter is dropped:
\* never while the adapter lives, whatever was called on it (close included,
\* which returns what flush returns: ready, success), and once when it is gone.
C9_ReleasedOnce ==
    /\ sock.released <= 1
    /\ stage \in {"raw", "adapter", "framed"} => sock.released = 0
    /\ stage \in {"dropped", "failed"} => sock.released = 1
    /\ gh.closeRes.poll # "none" => gh.closeRes.poll = "Ready" /\ gh.closeRes.ok

C9_Witness ==
    /\ mode = "async"
    /\ stage = "dropped"
    /\ gh.closeRes.poll = "Ready"
    /\ rd.res = "ReceiveMessage"
    /\ sock.released = 1

\* the adapter was used: a call reached it
AdapterUsed ==
    \/ rd # RdIdle
    \/ wr # [WrIdle EXCEPT !.cap = wr.cap]
    \/ gh.closeRes.poll # "none"
    \/ gh.calls > 0

\* C10: construction.  An adapter exists only on a socket that was switched to
\* non-blocking mode; when the switch fails no adapter exists and nothing is
\* ever read or written through one.
C10_Construction ==
    /\ (mode = "async" /\ stage \in {"adapter", "framed", "dropped"}) => sock.nonblocking
    /\ (mode = "async" /\ AdapterUsed) => sock.nonblocking
    /\ stage = "failed" => ~sock.nonblocking /\ ~AdapterUsed /\ mode = "async"

C10_Witness == stage = "failed" /\ ~sock.nonblocking /\ sock.released = 1

\* C11: error kinds.  receive_message returns the deserialization error only
\* after the whole frame was read (four header bytes within the bound and the
\* L payload bytes they announce) and the parse of those bytes failed; it
\* returns the receive error only when the header was above the bound
\* (InvalidData, exactly four bytes read) or a read failed (error, end of
\* stream, refused registration) before the frame was complete.  send_message
\* returns the serialization error only with no byte written and no write
\* attempted.
C11_ErrorKinds ==
    /\ rd.res = "DeserializeProto" =>
          /\ BLen(rd.hdr) = 4 /\ ~HeaderAbove(rd.hdr)
          /\ rd.len = ByteAt(rd.hdr, 2) * 256 + ByteAt(rd.hdr, 1)
          /\ rd.consumed = 4 + rd.len
          /\ ~merge_from_bytes(gh.prev, BTake(rx_buf, rd.len)).ok
    /\ rd.res = "ReceiveMessage" =>
          \/ rd.err = "InvalidData" /\ BLen(rd.hdr) = 4 /\ HeaderAbove(rd.hdr)
          \/ /\ rd.err \in {"ConnectionReset", "UnexpectedEof", "Other"}
             /\ BLen(rd.hdr) < 4 \/ (~HeaderAbove(rd.hdr) /\ rd.consumed < 4 + rd.len)
             /\ mode = "async" =>
                   \/ rd.err = "ConnectionReset" /\ rd.last.k = "Err"
                   \/ rd.err = "UnexpectedEof" /\ rd.last.k = "Ok" /\ rd.last.n = 0
                   \/ rd.err = "Other" /\ rd.last.k = "WouldBlock" /\ ~rd.last.addOk
    /\ wr.res = "SerializeProto" =>
          /\ ~gh.arg.init
          /\ wr.written = <<>>
          /\ wr.last = NoPoll
    /\ wr.res = "SendMessage" => gh.arg.init /\ wr.err # "none"

\* a frame that was read whole and did not parse, and a message that did not
\* serialize, on one connection
C11_Witness ==
    /\ rd.res = "DeserializeProto" /\ rd.consumed = 6
    /\ wr.res = "SerializeProto"

\* C12: eventual completion.  When the executor polls a runnable future, the
\* reactor wakes every registered waker of a readable descriptor and the bytes
\* in flight arrive, an asynchronous receive_message for which the peer wrote a
\* whole frame, a header above the bound, or closed, returns (a message or an
\* error); and a receive_message suspended on a readable descriptor is
\* resumed: no wakeup is lost between the would-block read and the
\* registration.
C12_EventualCompletion ==
    ReadSideFair =>
        /\ (rd.pc # "idle" /\ InboundDecides) ~> RecvFinished
        /\ (rd.susp /\ ReadReady) ~> ~rd.susp

\* a receive_message that was suspended in the header and in the payload, was
\* woken each time and returned its message
C12_Witness ==
    /\ rd.res = "Ok" /\ rd.regs = 2 /\ rd.last.woke /\ rd.last.n < rd.len
    /\ reactor.rd = 0

\* what C13 says of one poll_read / poll_write, from the record L of the call
RegistersOnWouldBlock(L) ==
    /\ L.reg \in {0, 1}
    /\ L.reg = 1 <=> (L.k = "WouldBlock" /\ L.addOk)
    /\ L.poll = "Pending" <=> L.reg = 1
    /\ L.k = "Ok" => L.poll = "Ready" /\ L.ok /\ L.e = "none"
    /\ L.k = "Err" =>
          L.poll = "Ready" /\ ~L.ok /\ L.n = 0 /\ L.e \in {"ConnectionReset", "BrokenPipe"}

\* C13: registration only on would-block.  A poll_read / poll_write registers
\* a waker exactly when its read / write failed with would-block (and the
\* reactor took the waker); when the read / write succeeded or failed with any
\* other error it returns Ready, with the value or that error, and registers
\* nothing.  The wakers a call registered are those of its would-block polls.
C13_RegistersOnWouldBlock ==
    /\ rd.last.k # "none" => RegistersOnWouldBlock(rd.last)
    /\ wr.last.k # "none" => RegistersOnWouldBlock(wr.last)
    /\ rd.regs = 0 /\ rd.last.k # "none" => rd.last.k # "WouldBlock" \/ ~rd.last.addOk
    /\ wr.regs = 0 /\ wr.last.k # "none" => wr.last.k # "WouldBlock" \/ ~wr.last.addOk

\* a write that failed with an error other than would-block, after a
\* would-block of the same call registered a waker that fired
C13_Witness ==
    /\ wr.last.k = "Err" /\ wr.last.poll = "Ready" /\ wr.last.reg = 0
    /\ wr.regs = 1 /\ reactor.wr = 0
    /\ wr.res = "SendMessage"

\* C14: registration failure is surfaced.  When a read / write would block and
\* the reactor refuses the waker, poll_read / poll_write returns Ready with an
\* error of kind Other and registers nothing; the receive_message /
\* send_message in flight is not suspended: it has returned the receive / send
\* error carrying that error.
C14_RegistrationFailure ==
    /\ (rd.last.k = "WouldBlock" /\ ~rd.last.addOk) =>
          /\ rd.last.poll = "Ready" /\ ~rd.last.ok /\ rd.last.e = "Other"
          /\ rd.last.reg = 0
          /\ rd.pc = "idle" /\ ~rd.susp
          /\ rd.res = "ReceiveMessage" /\ rd.err = "Other"
    /\ (wr.last.k = "WouldBlock" /\ ~wr.last.addOk) =>
          /\ wr.last.poll = "Ready" /\ ~wr.last.ok /\ wr.last.e = "Other"
          /\ wr.last.reg = 0
          /\ wr.pc = "idle" /\ ~wr.susp
          /\ wr.res = "SendMessage" /\ wr.err = "Other"

\* the reactor refused the waker of a receive_message in the middle of its
\* frame, after it had accepted an earlier one of the same call
C14_Witness ==
    /\ rd.last.k = "WouldBlock" /\ ~rd.last.addOk
    /\ rd.consumed > 0 /\ rd.regs = 1
    /\ rd.res = "ReceiveMessage"

\* the bytes the socket gave to the receive_message in flight / last finished
RdGot == BDrop(gh.rxLog, BLen(gh.rxLog) - rd.consumed)

\* C15: resumption from the same step.  However the bytes of the peer's
\* frame arrive (any split into pieces, a suspension wherever nothing is
\* there), the asynchronous receive_message holds, at every suspension, exactly
\* the bytes the socket gave it, in order: the header bytes, then the payload
\* bytes at the start of rx_buf.  When it returns Ok it has taken the 4 + L
\* bytes of the frame and the message is the parse of the frame's payload,
\* which is what the frame delivered in one piece gives.  No step but a write
\* of the peer changes the stream made of the bytes taken, the bytes readable
\* and the bytes in flight: none is lost, duplicated or read again.
C15_Resumption ==
    /\ [](/\ rd.pc \in {"header", "payload"} =>
                /\ RdGot = BCat(rd.hdr, BTake(rx_buf, rd.off))
                /\ BLen(RdGot) = rd.consumed
          /\ rd.res = "Ok" =>
                /\ BLen(RdGot) = 4 + rd.len
                /\ BTake(RdGot, 4) = LE4(rd.len)
                /\ BTake(rx_buf, rd.len) = BDrop(RdGot, 4)
                /\ merge_from_bytes(gh.prev, BDrop(RdGot, 4))
                      = [ok |-> TRUE, msg |-> out_message])
    /\ [][PeerWrite \/ BCat(BCat(gh.rxLog', inb'), inflight')
                          = BCat(BCat(gh.rxLog, inb), inflight)]_vars

\* a frame received in single bytes here and there: suspended twice inside
\* the header and twice inside the payload
C15_Witness ==
    /\ rd.res = "Ok" /\ rd.regs >= 5 /\ rd.last.n = 1 /\ rd.last.woke
    /\ rd.preads >= 3
    /\ RdGot = Frame(Encode(Msg(123, 9))) /\ out_message = Msg(123, 9)

\* position p of the byte stream s is a frame boundary: s starts with whole
\* frames (headers within the bound) that end at p
RECURSIVE IsBoundary(_, _)
IsBoundary(s, p) ==
    \/ p = 0
    \/ /\ BLen(s) >= 4
       /\ ~HeaderAbove(BTake(s, 4))
       /\ LET L == ByteAt(s, 2) * 256 + ByteAt(s, 1)
          IN  p >= 4 + L /\ IsBoundary(BDrop(s, 4 + L), p - (4 + L))

\* a call made after an abandoned one
LaterReceive == gh.abRd /\ (rd.pc # "idle" \/ rd.res # "none")
LaterSend == gh.abWr /\ (wr.pc # "idle" \/ wr.res # "none")

\* the receive_message / send_message future was dropped with part of its
\* frame transferred, and no call was made since
ReceiveAbandoned == rd.pc = "idle" /\ rd.res = "none" /\ rd.consumed > 0
SendAbandoned == wr.pc = "idle" /\ wr.res = "none" /\ wr.written # <<>>

\* C16: cancellation mid-frame.  When a suspended receive_message that
\* started at a frame boundary of the inbound stream is abandoned with part of
\* its frame consumed, the stream stands at a place that is not a frame
\* boundary, and the next receive_message starts right there with an empty
\* header and nothing consumed: the framer kept no record of the partial
\* frame, and a call holds only the bytes read since its own start.  Likewise
\* when a suspended send_message is abandoned with part of its frame written,
\* the outbound stream ends at a place that is not a frame boundary and the
\* next send_message writes its own frame from the first header byte: the
\* partial frame is never completed.
C16_Cancellation ==
    /\ [](/\ (ReceiveAbandoned /\ IsBoundary(gh.rxLog, BLen(gh.rxLog) - rd.consumed))
                => ~IsBoundary(gh.rxLog, BLen(gh.rxLog))
          /\ (SendAbandoned /\ IsBoundary(gh.txLog, BLen(gh.txLog) - BLen(wr.written)))
                => ~IsBoundary(gh.txLog, BLen(gh.txLog))
          /\ rd.pc # "idle" \/ rd.res # "none" =>
                /\ RdGot = BCat(rd.hdr, BTake(rx_buf, rd.off))
                /\ BLen(rd.hdr) <= 4
          /\ wr.pc # "idle" \/ wr.res \in {"Ok", "SendMessage"} =>
                wr.written = BTake(BCat(LE4(wr.len), Encode(gh.arg)), BLen(wr.written)))
    /\ [][(ReceiveAbandoned /\ VshAsyncRead_receive_message_call) =>
             /\ rd'.pc = "header" /\ rd'.hdr = <<>> /\ rd'.off = 0 /\ rd'.consumed = 0
             /\ gh'.rxLog = gh.rxLog /\ inb' = inb /\ rx_buf' = rx_buf]_vars
    /\ [][(SendAbandoned /\ VshAsyncWrite_send_message_call) =>
             /\ wr'.written = <<>> /\ wr'.off = 0
             /\ wr'.pc = "header" => wr'.len = BLen(Encode(gh'.arg))
             /\ gh'.txLog = gh.txLog /\ outb' = outb]_vars

\* after an abandoned receive a later receive_message took four bytes from
\* the middle of the frame as its header
C16_Witness ==
    /\ LaterReceive /\ rd.consumed >= 4 /\ rd.regs > 0
    /\ BLen(gh.rxLog) > rd.consumed

\* after an abandoned send a later send_message put a whole frame behind the
\* partial one
C16_WitnessSend ==
    /\ LaterSend /\ wr.res = "Ok"
    /\ BLen(gh.txLog) > BLen(wr.written)

\* the length announced by the four header bytes h, when it is below 65536
HeaderLen(h) == ByteAt(h, 2) * 256 + ByteAt(h, 1)

\* a send_message / receive_message was called and is in flight or returned
SendCalled == wr.pc # "idle" \/ wr.res # "none"

\* C17: the bound is inclusive at 4096 in both directions.  Sending: a message
\* is refused with MessageTooBig exactly when its serialized length is above
\* 4096 (4097 is refused, 4096 is not and goes out as a frame of 4100 bytes);
\* a message of length 0 goes out as its four header bytes with no write for
\* the payload.  Receiving: a header is refused as invalid exactly when it
\* announces more than 4096 (4097 is refused); a frame of 4096 is read whole
\* and returned; a header of 0 completes the call with no read for a payload.
C17_InclusiveBound ==
    /\ (SendCalled /\ gh.arg.init) =>
          /\ wr.res = "MessageTooBig" <=> BLen(Encode(gh.arg)) >= 4097
          /\ wr.res = "MessageTooBig" => wr.size = BLen(Encode(gh.arg)) /\ wr.written = <<>>
          /\ wr.res = "Ok" /\ BLen(Encode(gh.arg)) = 4096 => BLen(wr.written) = 4100
          /\ wr.res = "Ok" /\ BLen(Encode(gh.arg)) = 0 => wr.written = B4(0, 0, 0, 0)
    /\ wr.pc = "payload" => wr.len >= 1 /\ wr.len <= 4096
    /\ BLen(rd.hdr) = 4 =>
          /\ (rd.res = "ReceiveMessage" /\ rd.err = "InvalidData") <=> HeaderAbove(rd.hdr)
          /\ (~HeaderAbove(rd.hdr) /\ HeaderLen(rd.hdr) = 0) =>
                rd.pc = "idle" /\ rd.res = "Ok" /\ rd.preads = 0 /\ rd.consumed = 4
          /\ (~HeaderAbove(rd.hdr) /\ HeaderLen(rd.hdr) = 4096 /\ rd.res \in {"Ok", "DeserializeProto"}) =>
                rd.consumed = 4100 /\ rd.res = "Ok"
          /\ rd.pc = "payload" => rd.len >= 1 /\ rd.len <= 4096

\* a frame of exactly 4096 bytes was sent and received by the synchronous
\* framer
C17_Witness ==
    /\ mode = "sync"
    /\ wr.res = "Ok" /\ BLen(wr.written) = 4100
    /\ rd.res = "Ok" /\ rd.len = 4096 /\ rd.consumed = 4100

\* a frame of length 0 was received
C17_WitnessZero == rd.res = "Ok" /\ rd.hdr = B4(0, 0, 0, 0) /\ gh.recvOk = 1

\* C18: fixed-capacity buffers.  While the framer lives, whatever calls were
\* made, the receive buffer holds VSH_BUF_SIZE bytes and the transmit buffer
\* has capacity VSH_BUF_SIZE and never holds more than that.
C18_FixedCapacity ==
    stage = "framed" =>
        /\ BLen(rx_buf) = VSH_BUF_SIZE
        /\ wr.cap = VSH_BUF_SIZE
        /\ BLen(tx_buf) <= VSH_BUF_SIZE

\* what a send_message(m) gives as a function of m alone: the outcome, the
\* size reported and the bytes put on the wire
RefSend(m) ==
    LET L == BLen(Encode(m)) IN
    IF ~m.init THEN [res |-> "SerializeProto", size |-> 0, bytes |-> <<>>]
    ELSE IF L > 4096 THEN [res |-> "MessageTooBig", size |-> L, bytes |-> <<>>]
    ELSE [res |-> "Ok", size |-> 0, bytes |-> BCat(LE4(L), Encode(m))]

\* what a receive_message gives as a function of the inbound bytes s from the
\* place where it starts (closed: the stream ends after s) and of the message
\* prev it was handed: the outcome, the bytes consumed and the message
RefRecv(s, prev, closed) ==
    LET cut  == [res |-> IF closed THEN "ReceiveMessage" ELSE "none",
                 err |-> IF closed THEN "UnexpectedEof" ELSE "none",
                 consumed |-> BLen(s), msg |-> prev]
        L    == HeaderLen(BTake(s, 4))
        p    == merge_from_bytes(prev, BTake(BDrop(s, 4), L))
    IN  IF BLen(s) < 4 THEN cut
        ELSE IF HeaderAbove(BTake(s, 4))
        THEN [res |-> "ReceiveMessage", err |-> "InvalidData", consumed |-> 4, msg |-> prev]
        ELSE IF BLen(s) < 4 + L THEN cut
        ELSE [res |-> IF p.ok THEN "Ok" ELSE "DeserializeProto", err |-> "none",
              consumed |-> 4 + L, msg |-> p.msg]

\* C19: the synchronous and the asynchronous framer are equivalent.  In both,
\* what a call gives is the same function of its inputs.  A send_message ends
\* with the outcome and the bytes on the wire that RefSend gives for its
\* message (while it runs, or when the transport failed it, a prefix of those
\* bytes), from the first call of a new framer on.  A receive_message that
\* returned, the transport not having failed, has the outcome, the number of
\* bytes consumed and the message that RefRecv gives for the inbound bytes
\* from the place where it started.
C19_SyncAsyncEquivalent ==
    /\ SendCalled =>
          LET ref == RefSend(gh.arg) IN
          IF wr.res \in {"none", "SendMessage"}
          THEN ref.res = "Ok" /\ wr.written = BTake(ref.bytes, BLen(wr.written))
          ELSE wr.res = ref.res /\ wr.size = ref.size /\ wr.written = ref.bytes
    /\ (RecvFinished /\ rd.err \notin {"Other", "ConnectionReset"} /\ sock.link # "reset") =>
          LET ref == RefRecv(BCat(BCat(RdGot, inb), inflight), gh.prev, sock.link = "shut")
          IN  /\ rd.res = ref.res
              /\ rd.err = ref.err
              /\ rd.consumed = ref.consumed
              /\ out_message = ref.msg

\* the first send_message of a new asynchronous write half, whose tx_buf
\* starts as 4096 zero bytes, and a receive_message of the read half
C19_Witness ==
    /\ mode = "async"
    /\ gh.calls = 2 /\ wr.res = "Ok" /\ wr.len = 13 /\ wr.regs > 0
    /\ rd.res = "Ok" /\ out_message = Msg(123, 9)

\* the same calls on the synchronous framer
C19_WitnessSync ==
    /\ mode = "sync"
    /\ gh.calls = 2 /\ wr.res = "Ok" /\ wr.len = 13
    /\ rd.res = "Ok" /\ out_message = Msg(123, 9)

\* the peer closed and every byte it wrote was taken
StreamEnded == sock.link = "shut" /\ inb = <<>> /\ inflight = <<>>

\* C20: truncated stream.  A receive_message that meets the end of the stream
\* before its four header bytes or before the L payload bytes the header
\* announced fails with the receive error (UnexpectedEof) and leaves the
\* caller's message as it was; a call that returned a message or a parse
\* error has read all 4 + L bytes of its frame.  It does not wait either: at
\* the end of the stream the descriptor is readable, and the next read of the
\* receive_message (a poll of its future, a read of the blocking call) makes
\* it return that error.
C20_TruncatedStream ==
    /\ [](/\ rd.err = "UnexpectedEof" =>
                /\ rd.pc = "idle" /\ rd.res = "ReceiveMessage"
                /\ sock.link # "up"
                /\ BLen(RdGot) < 4 \/ BLen(RdGot) < 4 + HeaderLen(BTake(RdGot, 4))
                /\ out_message = gh.prev
          /\ rd.res \in {"Ok", "DeserializeProto"} =>
                /\ BLen(RdGot) >= 4
                /\ BLen(RdGot) = 4 + HeaderLen(BTake(RdGot, 4))
          /\ (StreamEnded /\ rd.pc \in {"header", "payload"}) =>
                /\ rd.consumed < 4 \/ rd.consumed < 4 + rd.len
                /\ ReadReady)
    /\ [][(StreamEnded /\ (VshAsyncRead_poll \/ VshWire_read)) =>
             /\ rd'.pc = "idle"
             /\ rd'.res = "ReceiveMessage" /\ rd'.err = "UnexpectedEof"
             /\ rd'.consumed = rd.consumed
             /\ out_message' = gh.prev]_vars

\* the stream ended inside the payload of a frame: the receive had taken the
\* header and one of three payload bytes
C20_Witness ==
    /\ rd.err = "UnexpectedEof" /\ rd.res = "ReceiveMessage"
    /\ rd.consumed = 5 /\ rd.len = 3

\* the stream ended inside the header
C20_WitnessHeader ==
    /\ rd.err = "UnexpectedEof" /\ rd.res = "ReceiveMessage"
    /\ rd.consumed = 2 /\ BLen(rd.hdr) = 2

\* ---- C21 ----------------------------------------------------------------------
\* the call has ended with the error its transport read or write failed with
EndedWith(c, res) == c.pc = "idle" /\ c.res = res /\ c.err = c.failed

\* C21: once a transport read or write inside receive_message / send_message
\* failed with an error other than would-block, the call issues no further
\* read or write: it has ended and returned that error.
C21_NoRetry ==
    /\ rd.failed # "none" => EndedWith(rd, "ReceiveMessage")
    /\ wr.failed # "none" => EndedWith(wr, "SendMessage")

\* the same for the asynchronous halves alone, whose read_exact / write_all
\* hand every error of poll_read / poll_write to the caller
C21_NoRetryAsync == mode = "async" => C21_NoRetry

\* ---- C22 ----------------------------------------------------------------------
\* the send_message in progress or last finished got past serialization and
\* the size check
SendFramed == wr.pc # "idle" \/ wr.res \in {"Ok", "SendMessage"}

\* the payload bytes the call has written so far
PayloadWritten == IF BLen(wr.written) <= 4 THEN <<>> ELSE BDrop(wr.written, 4)

\* C22: the payload written by each send_message is exactly the serialization
\* of that call's message, whatever tx_buf held before the call: the buffer
\* holds the serialization and nothing else, the header announces its length,
\* the payload written is a prefix of it and, on success, all of it.
C22_TransmitReset ==
    /\ SendFramed =>
          /\ tx_buf = Encode(gh.arg)
          /\ wr.len = BLen(Encode(gh.arg))
          /\ PayloadWritten = BTake(Encode(gh.arg), BLen(PayloadWritten))
    /\ wr.res = "Ok" =>
          /\ PayloadWritten = Encode(gh.arg)
          /\ BTake(wr.written, 4) = to_le_bytes(BLen(Encode(gh.arg)))

\* a shorter message was sent after a longer one
C22_Witness ==
    /\ wr.res = "Ok" /\ wr.prior = "Ok"
    /\ wr.len > 0 /\ wr.held > wr.len
    /\ PayloadWritten = Encode(Msg(123, 9))

\* the first message of a write half, whose buffer VshAsyncWrite::new filled
\* with 4096 zero bytes
C22_WitnessInitial ==
    /\ mode = "async" /\ wr.res = "Ok" /\ wr.prior = "none"
    /\ wr.held = VSH_BUF_SIZE /\ gh.sentOk = <<gh.arg>>

\* a message sent after a send_message that failed with MessageTooBig and
\* left its 4097 bytes in the buffer, and after one that failed to serialize
C22_WitnessTooBig == wr.res = "Ok" /\ wr.prior = "MessageTooBig" /\ wr.held = VSH_BUF_SIZE + 1
C22_WitnessSerialize == wr.res = "Ok" /\ wr.prior = "SerializeProto"

\* ---- C23 ----------------------------------------------------------------------
\* the receive_message last made returned success or a deserialization error
RecvFramed == rd.pc = "idle" /\ rd.res \in {"Ok", "DeserializeProto"}

\* a receive_message is called
ReceiveCalled == VshAsyncRead_receive_message_call \/ VshWire_receive_message_call

\* C23: a receive_message that returns success or a deserialization error has
\* consumed exactly 4 + L bytes of the stream, L being the length its header
\* announces: when it started at a frame boundary it ends at one, and the next
\* receive_message starts there with an empty header and takes as its header
\* the bytes the stream gives next, also after a payload that failed to parse.
C23_FrameAlignment ==
    /\ [](RecvFramed =>
            /\ BLen(rd.hdr) = 4
            /\ rd.hdr = BTake(RdGot, 4)
            /\ rd.consumed = 4 + HeaderLen(rd.hdr)
            /\ (IsBoundary(gh.rxLog, BLen(gh.rxLog) - rd.consumed)
                  => IsBoundary(gh.rxLog, BLen(gh.rxLog))))
    /\ [][(RecvFramed /\ ReceiveCalled) =>
             /\ rd'.pc = "header" /\ rd'.hdr = <<>> /\ rd'.consumed = 0
             /\ gh'.rxLog = gh.rxLog /\ inb' = inb /\ inflight' = inflight]_vars
    /\ [](rd.prior \in {"Ok", "DeserializeProto"} =>
            rd.hdr = BTake(RdGot, BLen(rd.hdr)))

\* the peer wrote a frame that does not parse and a well-formed frame behind
\* it: the first receive_message returned DeserializeProto, the second one
\* the message of the second frame
C23_Witness ==
    /\ rd.prior = "DeserializeProto" /\ rd.res = "Ok"
    /\ gh.rxLog = BCat(Frame(BCat(Encode(Msg(7, 0)), Run(24, 1))), Frame(Encode(Msg(5, 0))))
    /\ rd.consumed = 6
    /\ out_message.code = 5

\* ---- C24 ----------------------------------------------------------------------
\* the schema's "parse from bytes": a new message into which the bytes are merged
ParseFromBytes(s) == merge_from_bytes(NewMessage, s).msg

\* the payload bytes of the frame the receive_message last made consumed
FramePayload == BDrop(RdGot, 4)

\* C24: after a successful receive_message(out_message), out_message equals the
\* parse of the frame's L payload bytes, whatever field values out_message
\* held before the call.
C24_FrameOnly ==
    (rd.pc = "idle" /\ rd.res = "Ok") => out_message = ParseFromBytes(FramePayload)

\* the same for calls that pass a newly constructed message
C24_FrameOnlyIntoNew ==
    (rd.pc = "idle" /\ rd.res = "Ok" /\ gh.prev = NewMessage)
        => out_message = ParseFromBytes(FramePayload)

\* ---- C25 ----------------------------------------------------------------------
\* one read of a receive_message
ReadStep == VshAsyncRead_poll \/ VshWire_read

\* the header of the call is complete and within the bound
HeaderAccepted(r) == BLen(r.hdr) = 4 /\ ~HeaderAbove(r.hdr)

\* C25: the receive buffer always has length 4096; every payload read and
\* every parse uses only its first L bytes, L <= 4096: the read leaves the
\* bytes at positions >= L as they were, the first L bytes are the payload
\* of this frame, and the result of the call is that of parsing those L bytes,
\* so bytes an earlier, longer frame left behind never reach the parser.
C25_ReceiveBuffer ==
    /\ [](stage = "framed" =>
            /\ BLen(rx_buf) = VSH_BUF_SIZE
            /\ HeaderAccepted(rd) =>
                  /\ rd.len = HeaderLen(rd.hdr) /\ rd.len <= VSH_BUF_SIZE
                  /\ rd.off <= rd.len
                  /\ BTake(rx_buf, rd.off) = BTake(FramePayload, rd.off)
            /\ RecvFramed =>
                  /\ HeaderAccepted(rd)
                  /\ BTake(rx_buf, rd.len) = FramePayload
                  /\ (rd.res = "Ok") = merge_from_bytes(gh.prev, FramePayload).ok
                  /\ out_message = merge_from_bytes(gh.prev, FramePayload).msg)
    /\ [][(ReadStep /\ HeaderAccepted(rd')) =>
             BDrop(rx_buf', rd'.len) = BDrop(rx_buf, rd'.len)]_vars

\* a frame of 2 bytes was received after one of 3 bytes: the last byte of the
\* longer frame is still in the buffer behind the 2 bytes that were parsed
C25_Witness ==
    /\ rd.pc = "idle" /\ rd.res = "Ok" /\ rd.len = 2
    /\ rd.prior = "DeserializeProto"
    /\ BTake(rx_buf, 3) = BCat(Encode(Msg(5, 0)), Run(24, 1))
    /\ out_message.code = 5

====
